---- MODULE Spec2Model ----
(***************************************************************************)
(* Payee side of a picopayments micropayment channel                       *)
(* (picopayments/channel/payee.py).  The channel object is the record      *)
(* `self`; every public method of Payee is one action that runs the whole  *)
(* method body under the channel mutex (Spec).  SpecThreads runs the same  *)
(* methods on two threads, statement by statement, each inside             *)
(* `with self.mutex`.                                                      *)
(***************************************************************************)
EXTENDS Integers, Sequences, FiniteSets, TLC

VARIABLES self,       \* the Payee object: its attributes
          entropy,    \* number of os.urandom(32) draws made so far
          lastOp,     \* the last public call: its name, outcome and result
          disclosed,  \* secrets that left the channel, and through which call
          mutex,      \* self.mutex: the thread that owns it and how many times
          threads     \* each thread's call: method, arguments, position, locals

vars == <<self, entropy, lastOp, disclosed, mutex, threads>>

(***************************************************************************)
(* Bounds of the model.                                                    *)
(***************************************************************************)
MaxEntropy == 3      \* os.urandom draws (spend secrets and revoke secrets)
MaxQuantity == 1     \* transaction quantities range over 0..MaxQuantity
MaxDelay == 1        \* the delay commit scripts embed; confirms 0..MaxDelay+1
MaxPayouts == 1      \* recorded payout transactions
MaxCalls == 4        \* calls the threads of SpecThreads make in all

(***************************************************************************)
(* Values.  Python None, byte strings, hex strings, keys.                  *)
(***************************************************************************)
None == [none |-> TRUE]

\* os.urandom(32): the k-th draw is a fresh 32 byte string
os_urandom(k) == [rand |-> k + 1]

\* util.b2h / util.h2b: hex encoding and decoding
b2h(b) == [hex |-> b]
h2b(h) == h.hex

\* util.hash160 on bytes, util.hash160hex on hex strings
hash160(b) == [hash160 |-> b]
hash160hex(h) == b2h(hash160(h2b(h)))

\* util.wif2pubkey
wif2pubkey(wif) == [pubkey |-> wif]

\* util.gettxid
gettxid(rawtx) == [txid |-> rawtx]

IsSecret(v) == DOMAIN v = {"hex"} /\ DOMAIN v.hex = {"rand"}

Wifs == {[wif |-> "A"], [wif |-> "B"]}
Pubkeys == {wif2pubkey(w) : w \in Wifs}
Quantities == 0..MaxQuantity
Delays == {MaxDelay}

\* raw transactions handed in by the payer: a commit pays some quantity, the
\* deposit funds the channel; each lacks one signature when well formed
RawTxs == [quantity : Quantities, bad_signature_count : {1, 2}]
DepositTxs == [quantity : {MaxQuantity}, bad_signature_count : {1, 2}]

\* what the blockchain reports about one commit: whether it is spent, whether
\* its address can be spent from, and the confirmations of the address' UTXOs
Confirms == 0..(MaxDelay + 1)
UtxoConfirms ==
    {<<>>} \cup {<<c>> : c \in Confirms} \cup {<<c, MaxDelay>> : c \in Confirms}
ChainViews ==
    {[spent |-> TRUE, can_spend |-> TRUE, confirms |-> <<MaxDelay>>],
     [spent |-> FALSE, can_spend |-> FALSE, confirms |-> <<MaxDelay>>],
     [spent |-> FALSE, can_spend |-> FALSE, confirms |-> <<>>]}
    \cup {[spent |-> FALSE, can_spend |-> TRUE, confirms |-> c] :
              c \in UtxoConfirms}

\* a hash the channel never produced
BogusHash == hash160hex(b2h([rand |-> 0]))

\* the hashes a payer can embed in a script: the ones the channel has handed
\* out so far (of its first `drawn` secrets), or one of its own making
KnownHashes(drawn) ==
    {hash160hex(b2h(os_urandom(k))) : k \in 0..(drawn - 1)} \cup {BogusHash}

\* deposit scripts and commit scripts, hex encoded
DepositScripts(spend_hashes) ==
    {b2h(s) : s \in [spend_secret_hash : spend_hashes, payee_pubkey : Pubkeys]}
CommitScripts(spend_hashes, revoke_hashes) ==
    {b2h(s) : s \in [spend_secret_hash : spend_hashes, payee_pubkey : Pubkeys,
                     revoke_secret_hash : revoke_hashes, delay_time : Delays]}

\* picopayments.scripts: the fields a script embeds
get_deposit_spend_secret_hash(script) == script.spend_secret_hash
get_deposit_payee_pubkey(script) == script.payee_pubkey
get_commit_spend_secret_hash(script) == script.spend_secret_hash
get_commit_payee_pubkey(script) == script.payee_pubkey
get_commit_revoke_secret_hash(script) == script.revoke_secret_hash
get_commit_delay_time(script) == script.delay_time

\* pycoin Tx.from_hex(rawtx).bad_signature_count()
bad_signature_count(rawtx) == rawtx.bad_signature_count

\* control.get_quantity(rawtx)
get_quantity(rawtx) == rawtx.quantity

\* control.finalize_commit: the payee's signature completes the transaction
finalize_commit(payee_wif, rawtx, deposit_script) ==
    [rawtx EXCEPT !.bad_signature_count = 0]

\* control.payout_recover: the recovery transaction of a commit script
control_payout_recover(payee_wif, script, spend_secret) ==
    [payout |-> script]

(***************************************************************************)
(* Base: the channel state and its helpers.                                *)
(***************************************************************************)
\* Base.clear(): the channel in its initial empty state
clear(s) ==
    [payer_wif |-> None, payee_wif |-> None, spend_secret |-> None,
     deposit_rawtx |-> None, deposit_script_hex |-> None,
     commits_requested |-> <<>>, commits_active |-> <<>>,
     commits_revoked |-> <<>>, payout_rawtxs |-> <<>>]

RECURSIVE InsertSorted(_, _)
\* insert c after every element whose quantity is not larger (stable)
InsertSorted(sorted, c) ==
    IF sorted = <<>> THEN <<c>>
    ELSE IF get_quantity(Head(sorted)["rawtx"]) <= get_quantity(c["rawtx"])
         THEN <<Head(sorted)>> \o InsertSorted(Tail(sorted), c)
         ELSE <<c>> \o sorted

RECURSIVE SortByQuantity(_)
\* list.sort(key=quantity): ascending and stable
SortByQuantity(commits) ==
    IF commits = <<>> THEN <<>>
    ELSE InsertSorted(SortByQuantity(SubSeq(commits, 1, Len(commits) - 1)),
                      commits[Len(commits)])

\* Base._order_active(): re-sorts commits_active ascending by quantity
order_active(s) ==
    [s EXCEPT !.commits_active = SortByQuantity(@)]

\* Base.get_transferred_amount(): quantity of the last active commit, or 0
get_transferred_amount(s) ==
    IF Len(s.commits_active) = 0 THEN 0
    ELSE get_quantity(s.commits_active[Len(s.commits_active)]["rawtx"])

\* Base._validate_transfer_quantity(quantity)
validate_transfer_quantity(s, quantity) ==
    quantity >= 0 /\ quantity >= get_transferred_amount(s)

RemoveAt(seq, i) == SubSeq(seq, 1, i - 1) \o SubSeq(seq, i + 1, Len(seq))

\* a plausible slip: the commit is added to revoked but stays active
revoke_copy(s, secret) ==
    LET hits == {i \in 1..Len(s.commits_active) :
                    get_commit_revoke_secret_hash(
                        h2b(s.commits_active[i]["script"]))
                    = hash160hex(secret)}
    IN IF hits = {} THEN s
       ELSE LET i == CHOOSE j \in hits : \A k \in hits : j <= k
                commit == [s.commits_active[i] EXCEPT !["revoke_secret"] = secret]
            IN [s EXCEPT !.commits_revoked = Append(@, commit)]

\* Base.revoke(secret): move the active commit of that secret to revoked
revoke(s, secret) ==
    LET hits == {i \in 1..Len(s.commits_active) :
                    get_commit_revoke_secret_hash(
                        h2b(s.commits_active[i]["script"]))
                    = hash160hex(secret)}
    IN IF hits = {} THEN s
       ELSE LET i == CHOOSE j \in hits : \A k \in hits : j <= k
                commit == [s.commits_active[i] EXCEPT !["revoke_secret"] = secret]
            IN [s EXCEPT !.commits_active = RemoveAt(@, i),
                         !.commits_revoked = Append(@, commit)]

RECURSIVE revoke_all(_, _)
\* Base.revoke_all(secrets): revoke each secret in turn
revoke_all(s, secrets) ==
    IF secrets = <<>> THEN s
    ELSE revoke_all(revoke(s, Head(secrets)), Tail(secrets))

(***************************************************************************)
(* A call's outcome: the channel it leaves, how it ended ("ok", "None" or  *)
(* the exception raised), the values it returned, and the values it let    *)
(* out of the channel (returned, raised, or passed to a collaborator).     *)
(***************************************************************************)
Result(s, status, val, out) ==
    [self |-> s, status |-> status, val |-> val, out |-> out]

Out(by, values) == {[by |-> by, value |-> v] : v \in values}

Range(seq) == {seq[i] : i \in 1..Len(seq)}

(***************************************************************************)
(* Payee: each method as the outcome of calling it on channel s.           *)
(***************************************************************************)
\* a plausible slip: the secret is returned in place of its hash
setup_secret(s, payee_wif, secret) ==
    LET payee_pubkey == wif2pubkey(payee_wif)
        spend_secret == b2h(secret)
    IN Result([clear(s) EXCEPT !.payee_wif = payee_wif,
                               !.spend_secret = b2h(secret)],
              "ok", <<payee_pubkey, spend_secret>>,
              Out("setup", {payee_pubkey, spend_secret}))

\* secret: the 32 bytes os.urandom returns to this call
setup(s, payee_wif, secret) ==
    LET payee_pubkey == wif2pubkey(payee_wif)
        spend_secret_hash == b2h(hash160(secret))
    IN Result([clear(s) EXCEPT !.payee_wif = payee_wif,
                               !.spend_secret = b2h(secret)],
              "ok", <<payee_pubkey, spend_secret_hash>>,
              Out("setup", {payee_pubkey, spend_secret_hash}))

\* a plausible slip: the raw hash is compared with the hex encoded one
validate_deposit_spend_secret_hash_raw(s, script) ==
    get_deposit_spend_secret_hash(script) = hash160(h2b(s.spend_secret))

validate_deposit_spend_secret_hash(s, script) ==
    get_deposit_spend_secret_hash(script) = hash160hex(s.spend_secret)

\* a plausible slip: the key is compared with itself
validate_deposit_payee_pubkey_self(s, script) ==
    get_deposit_payee_pubkey(script) = get_deposit_payee_pubkey(script)

validate_deposit_payee_pubkey(s, script) ==
    get_deposit_payee_pubkey(script) = wif2pubkey(s.payee_wif)

assert_unopen_state(s) ==
    /\ s.payer_wif = None
    /\ s.payee_wif # None
    /\ s.spend_secret # None
    /\ s.deposit_rawtx = None
    /\ s.deposit_script_hex = None
    /\ Len(s.commits_active) = 0
    /\ Len(s.commits_revoked) = 0

validate_payer_deposit(rawtx, script_hex) ==
    bad_signature_count(rawtx) = 1

validate_payer_commit(rawtx, script_hex) ==
    bad_signature_count(rawtx) = 1

set_deposit(s, rawtx, script_hex) ==
    LET script == h2b(script_hex) IN
    IF ~assert_unopen_state(s)
    THEN Result(s, "AssertionError", <<>>, {})
    ELSE IF ~validate_payer_deposit(rawtx, script_hex)
    THEN Result(s, "AssertionError", <<>>, {})
    ELSE IF ~validate_deposit_spend_secret_hash(s, script)
    THEN Result(s, "ValueError", <<>>,
                Out("set_deposit", {get_deposit_spend_secret_hash(script),
                                    hash160hex(s.spend_secret)}))
    ELSE IF ~validate_deposit_payee_pubkey(s, script)
    THEN Result(s, "ValueError", <<>>,
                Out("set_deposit", {get_deposit_payee_pubkey(script),
                                    wif2pubkey(s.payee_wif)}))
    ELSE Result([s EXCEPT !.deposit_rawtx = rawtx,
                          !.deposit_script_hex = script_hex],
                "ok", <<>>, {})

\* random: the 32 bytes os.urandom returns to this call
request_commit(s, quantity, random) ==
    IF ~validate_transfer_quantity(s, quantity)
    THEN Result(s, "ValidationError", <<>>, {})
    ELSE LET secret == b2h(random)
             secret_hash == hash160hex(secret)
         IN Result([s EXCEPT !.commits_requested = Append(@, secret)],
                   "ok", <<quantity, secret_hash>>,
                   Out("request_commit", {secret_hash}))

validate_commit_secret_hash(s, script) ==
    get_commit_spend_secret_hash(script) = hash160hex(s.spend_secret)

validate_commit_payee_pubkey(s, script) ==
    get_commit_payee_pubkey(script) = wif2pubkey(s.payee_wif)

\* a plausible slip: the comparison of the hashes dropped from the loop
Matching_any(s, revoke_secret_hash) ==
    1..Len(s.commits_requested)

\* the loop of set_commit: the positions in commits_requested whose secret
\* hashes to revoke_secret_hash
Matching(s, revoke_secret_hash) ==
    {i \in 1..Len(s.commits_requested) :
        revoke_secret_hash = hash160hex(s.commits_requested[i])}

\* a plausible slip: the request is not removed
accept_commit_keep(s, i, rawtx, script_hex) ==
    LET revoke_secret == s.commits_requested[i]
        ordered == order_active(s)
        added == [ordered EXCEPT !.commits_active = Append(@,
                     [rawtx |-> rawtx, script |-> script_hex,
                      revoke_secret |-> revoke_secret])]
    IN Result(added, "ok", <<get_transferred_amount(added)>>, {})

\* a plausible slip: the new commit is put in front of the active ones
accept_commit_front(s, i, rawtx, script_hex) ==
    LET revoke_secret == s.commits_requested[i]
        removed == [s EXCEPT !.commits_requested = RemoveAt(@, i)]
        ordered == order_active(removed)
        added == [ordered EXCEPT !.commits_active =
                     <<[rawtx |-> rawtx, script |-> script_hex,
                        revoke_secret |-> revoke_secret]>> \o @]
    IN Result(added, "ok", <<get_transferred_amount(added)>>, {})

\* the body of the match in set_commit: the i-th request is consumed
accept_commit(s, i, rawtx, script_hex) ==
    LET revoke_secret == s.commits_requested[i]
        removed == [s EXCEPT !.commits_requested = RemoveAt(@, i)]
        ordered == order_active(removed)
        added == [ordered EXCEPT !.commits_active = Append(@,
                     [rawtx |-> rawtx, script |-> script_hex,
                      revoke_secret |-> revoke_secret])]
    IN Result(added, "ok", <<get_transferred_amount(added)>>, {})

\* a plausible slip: the request is consumed before the script is validated
set_commit_late(s, rawtx, script_hex) ==
    LET script == h2b(script_hex)
        revoke_secret_hash == get_commit_revoke_secret_hash(script)
        hits == Matching(s, revoke_secret_hash)
        taken == IF hits = {} THEN s
                 ELSE [s EXCEPT !.commits_requested =
                          RemoveAt(@, CHOOSE j \in hits : \A k \in hits : j <= k)]
    IN
    IF ~validate_payer_commit(rawtx, script_hex)
    THEN Result(s, "AssertionError", <<>>, {})
    ELSE IF s.spend_secret = None
    THEN Result(s, "TypeError", <<>>, {})
    ELSE IF ~validate_commit_secret_hash(s, script)
    THEN Result(taken, "ValueError", <<>>,
                Out("set_commit", {get_commit_spend_secret_hash(script),
                                   hash160hex(s.spend_secret)}))
    ELSE IF ~validate_commit_payee_pubkey(s, script)
    THEN Result(taken, "ValueError", <<>>,
                Out("set_commit", {get_commit_payee_pubkey(script),
                                   wif2pubkey(s.payee_wif)}))
    ELSE IF hits = {}
    THEN Result(s, "None", <<>>, {})
    ELSE accept_commit(s, CHOOSE j \in hits : \A k \in hits : j <= k,
                       rawtx, script_hex)

set_commit(s, rawtx, script_hex) ==
    LET script == h2b(script_hex)
        revoke_secret_hash == get_commit_revoke_secret_hash(script)
        hits == Matching(s, revoke_secret_hash)
    IN
    IF ~validate_payer_commit(rawtx, script_hex)
    THEN Result(s, "AssertionError", <<>>, {})
    ELSE IF s.spend_secret = None
    THEN \* util.hash160hex(None) raises
         Result(s, "TypeError", <<>>, {})
    ELSE IF ~validate_commit_secret_hash(s, script)
    THEN Result(s, "ValueError", <<>>,
                Out("set_commit", {get_commit_spend_secret_hash(script),
                                   hash160hex(s.spend_secret)}))
    ELSE IF ~validate_commit_payee_pubkey(s, script)
    THEN Result(s, "ValueError", <<>>,
                Out("set_commit", {get_commit_payee_pubkey(script),
                                   wif2pubkey(s.payee_wif)}))
    ELSE IF hits = {}
    THEN Result(s, "None", <<>>, {})
    ELSE accept_commit(s, CHOOSE j \in hits : \A k \in hits : j <= k,
                       rawtx, script_hex)

RECURSIVE revoke_scan(_, _)
\* the reversed scan of revoke_until over the ordered active commits
revoke_scan(commits, quantity) ==
    IF commits = <<>> THEN <<>>
    ELSE LET commit == commits[Len(commits)] IN
         IF quantity < get_quantity(commit["rawtx"])
         THEN <<commit["revoke_secret"]>>
              \o revoke_scan(SubSeq(commits, 1, Len(commits) - 1), quantity)
         ELSE <<>>

\* a plausible slip: the secrets are returned but the commits not revoked
revoke_until_keep(s, quantity) ==
    LET ordered == order_active(s)
        secrets == revoke_scan(ordered.commits_active, quantity)
    IN Result(ordered, "ok", secrets, Out("revoke_until", Range(secrets)))

revoke_until(s, quantity) ==
    LET ordered == order_active(s)
        secrets == revoke_scan(ordered.commits_active, quantity)
    IN Result(revoke_all(ordered, secrets), "ok", secrets,
              Out("revoke_until", Range(secrets)))

\* a plausible slip: the first active commit is taken, not the last
close_channel_first(s) ==
    IF ~(Len(s.commits_active) > 0)
    THEN Result(s, "AssertionError", <<>>, {})
    ELSE LET ordered == order_active(s)
             commit == ordered.commits_active[1]
         IN IF s.deposit_script_hex = None
            THEN Result(ordered, "TypeError", <<>>, {})
            ELSE LET rawtx == finalize_commit(s.payee_wif, commit["rawtx"],
                                              h2b(s.deposit_script_hex))
                 IN Result([ordered EXCEPT
                               !.commits_active[1]["rawtx"] = rawtx],
                           "ok", <<gettxid(rawtx)>>,
                           Out("close_channel",
                               {s.payee_wif, h2b(s.deposit_script_hex)}))

close_channel(s) ==
    IF ~(Len(s.commits_active) > 0)
    THEN Result(s, "AssertionError", <<>>, {})
    ELSE LET ordered == order_active(s)
             last == Len(ordered.commits_active)
             commit == ordered.commits_active[last]
         IN IF s.deposit_script_hex = None
            THEN \* util.h2b(None) raises, after the re-ordering
                 Result(ordered, "TypeError", <<>>, {})
            ELSE LET rawtx == finalize_commit(s.payee_wif, commit["rawtx"],
                                              h2b(s.deposit_script_hex))
                 IN Result([ordered EXCEPT
                               !.commits_active[last]["rawtx"] = rawtx],
                           "ok", <<gettxid(rawtx)>>,
                           Out("close_channel",
                               {s.payee_wif, h2b(s.deposit_script_hex)}))

RECURSIVE scan_utxos(_, _, _)
\* the inner loop of get_payout_recoverable: one script per deep enough UTXO
scan_utxos(script, delay_time, confirms) ==
    IF confirms = <<>> THEN <<>>
    ELSE (IF Head(confirms) >= delay_time THEN <<script>> ELSE <<>>)
         \o scan_utxos(script, delay_time, Tail(confirms))

RECURSIVE scan_commits_spent(_, _, _)
\* a plausible slip: a commit reported spent is not skipped
scan_commits_spent(commits, chain, k) ==
    IF k > Len(commits) THEN <<>>
    ELSE LET script == h2b(commits[k]["script"])
             delay_time == get_commit_delay_time(script)
             found == IF chain[k].can_spend
                      THEN scan_utxos(script, delay_time, chain[k].confirms)
                      ELSE <<>>
         IN found \o scan_commits_spent(commits, chain, k + 1)

RECURSIVE scan_commits(_, _, _)
\* the outer loop of get_payout_recoverable, from the k-th commit on
scan_commits(commits, chain, k) ==
    IF k > Len(commits) THEN <<>>
    ELSE LET script == h2b(commits[k]["script"])
             delay_time == get_commit_delay_time(script)
             found == IF chain[k].spent THEN <<>>
                      ELSE IF chain[k].can_spend
                      THEN scan_utxos(script, delay_time, chain[k].confirms)
                      ELSE <<>>
         IN found \o scan_commits(commits, chain, k + 1)

\* chain[k]: what the blockchain answers about the k-th commit of
\* commits_active + commits_revoked
get_payout_recoverable(s, chain) ==
    Result(s, "ok",
           scan_commits(s.commits_active \o s.commits_revoked, chain, 1), {})

RECURSIVE recover_all(_, _)
\* the loop of payout_recover: one recorded payout per script
recover_all(s, scripts) ==
    IF scripts = <<>> THEN s
    ELSE recover_all(
             [s EXCEPT !.payout_rawtxs = Append(@,
                  control_payout_recover(s.payee_wif, Head(scripts),
                                         s.spend_secret))],
             Tail(scripts))

payout_recover(s, scripts) ==
    Result(recover_all(s, scripts), "ok", <<>>,
           IF scripts = <<>> THEN {}
           ELSE Out("payout_recover", {s.payee_wif, s.spend_secret}))

update(s, chain) ==
    LET scripts == get_payout_recoverable(s, chain).val
        recovered == payout_recover(s, scripts)
    IN IF Len(scripts) > 0
       THEN Result(recovered.self, "ok", <<>>, recovered.out)
       ELSE Result(s, "ok", <<>>, {})

(***************************************************************************)
(* The inputs of the calls.                                                *)
(***************************************************************************)
\* the spend-secret-hash a payer embeds: the channel's own, or a bogus one
SpendHashes(s) ==
    (IF s.spend_secret = None THEN {} ELSE {hash160hex(s.spend_secret)})
    \cup {BogusHash}

DepositInputs == DepositScripts(SpendHashes(self))
CommitInputs == CommitScripts(SpendHashes(self), KnownHashes(entropy))
QuantityInputs == (-1)..MaxQuantity

\* the blockchain answers considered for the commits of commits_active +
\* commits_revoked: the same answer for every commit, or no funds at any
\* address but one
Unfunded == [spent |-> FALSE, can_spend |-> FALSE, confirms |-> <<>>]
Chains(s) ==
    LET n == Len(s.commits_active) + Len(s.commits_revoked) IN
    {[k \in 1..n |-> view] : view \in ChainViews}
    \cup {[k \in 1..n |-> IF k = focus THEN view ELSE Unfunded] :
              focus \in 1..n, view \in ChainViews}

\* the scripts of the commits the channel holds
KnownScripts(s) ==
    {h2b(c["script"]) : c \in Range(s.commits_active \o s.commits_revoked)}
ScriptInputs == {<<>>} \cup {<<script>> : script \in KnownScripts(self)}

(***************************************************************************)
(* self.mutex and the threads that call the channel.                       *)
(***************************************************************************)
Threads == {"t1", "t2"}

\* the mutex of a new channel: owned by nobody
Unlocked == [owner |-> "nobody", count |-> 0]

\* a plausible slip: a plain lock, which its owner cannot take again
CanAcquire_plain(m, t) == m.count = 0

\* the mutex is reentrant: free, or already owned by the acquiring thread
CanAcquire(m, t) == m.count = 0 \/ m.owner = t

acquire(m, t) == [owner |-> t, count |-> m.count + 1]

release(m, t) ==
    IF m.count <= 1 THEN Unlocked ELSE [m EXCEPT !.count = @ - 1]

\* a thread that is not calling the channel
Idle ==
    [pc |-> "idle", op |-> "none", args |-> None, seen |-> None,
     local |-> <<>>, status |-> "none", val |-> None, calls |-> 0]

(***************************************************************************)
(* The calls as steps of the channel.                                      *)
(***************************************************************************)
Call(op, r) ==
    /\ UNCHANGED <<mutex, threads>>
    /\ self' = r.self
    /\ lastOp' = [op |-> op, status |-> r.status, val |-> r.val]
    /\ disclosed' = disclosed \cup
           {[by |-> o.by, secret |-> o.value] :
               o \in {x \in r.out : IsSecret(x.value)}}

Setup(payee_wif) ==
    /\ entropy < MaxEntropy
    /\ \E r \in {setup(self, payee_wif, os_urandom(entropy))} : Call("setup", r)
    /\ entropy' = entropy + 1

SetDeposit(rawtx, script_hex) ==
    /\ \E r \in {set_deposit(self, rawtx, script_hex)} : Call("set_deposit", r)
    /\ entropy' = entropy

RequestCommit(quantity) ==
    \E r \in {request_commit(self, quantity, os_urandom(entropy))} :
        /\ r.status = "ok" => entropy < MaxEntropy
        /\ Call("request_commit", r)
        /\ entropy' = IF r.status = "ok" THEN entropy + 1 ELSE entropy

SetCommit(rawtx, script_hex) ==
    /\ \E r \in {set_commit(self, rawtx, script_hex)} : Call("set_commit", r)
    /\ entropy' = entropy

RevokeUntil(quantity) ==
    /\ \E r \in {revoke_until(self, quantity)} : Call("revoke_until", r)
    /\ entropy' = entropy

CloseChannel ==
    /\ \E r \in {close_channel(self)} : Call("close_channel", r)
    /\ entropy' = entropy

GetPayoutRecoverable(chain) ==
    /\ \E r \in {get_payout_recoverable(self, chain)} :
           Call("get_payout_recoverable", r)
    /\ entropy' = entropy

PayoutRecover(scripts) ==
    \E r \in {payout_recover(self, scripts)} :
        /\ Len(r.self.payout_rawtxs) <= MaxPayouts
        /\ Call("payout_recover", r)
        /\ entropy' = entropy

Update(chain) ==
    \E r \in {update(self, chain)} :
        /\ Len(r.self.payout_rawtxs) <= MaxPayouts
        /\ Call("update", r)
        /\ entropy' = entropy

Init ==
    /\ self = clear(None)
    /\ entropy = 0
    /\ lastOp = [op |-> "init", status |-> "ok", val |-> <<>>]
    /\ disclosed = {}
    /\ mutex = Unlocked
    /\ threads = [t \in Threads |-> Idle]

Next ==
    \/ \E payee_wif \in Wifs : Setup(payee_wif)
    \/ \E rawtx \in DepositTxs, script_hex \in DepositInputs :
           SetDeposit(rawtx, script_hex)
    \/ \E quantity \in QuantityInputs : RequestCommit(quantity)
    \/ \E rawtx \in RawTxs, script_hex \in CommitInputs :
           SetCommit(rawtx, script_hex)
    \/ \E quantity \in QuantityInputs : RevokeUntil(quantity)
    \/ CloseChannel
    \/ \E chain \in Chains(self) : GetPayoutRecoverable(chain)
    \/ \E scripts \in ScriptInputs : PayoutRecover(scripts)
    \/ \E chain \in Chains(self) : Update(chain)

Spec == Init /\ [][Next]_vars

(***************************************************************************)
(* The same methods called by concurrent threads.  A call waits at         *)
(* `with self.mutex` ("enter"), runs its statements while it owns the      *)
(* mutex, and leaves the `with` block ("exit") however the body ended.     *)
(* threads[t].seen is the channel as the call found it on entering.        *)
(***************************************************************************)
\* the arguments the threads pass
ThreadWif == [wif |-> "A"]
ThreadDepositScripts ==
    {b2h([spend_secret_hash |-> h, payee_pubkey |-> wif2pubkey(ThreadWif)]) :
        h \in SpendHashes(self)}
PendingHashes(s) ==
    {hash160hex(secret) : secret \in Range(s.commits_requested)}
ThreadCommitScripts ==
    {b2h([spend_secret_hash |-> h, payee_pubkey |-> wif2pubkey(ThreadWif),
          revoke_secret_hash |-> rh, delay_time |-> MaxDelay]) :
        h \in SpendHashes(self), rh \in PendingHashes(self) \cup {BogusHash}}
ThreadQuantities == {-1, 0}

\* the threads whose call is going to draw from os.urandom
Drawing ==
    {u \in Threads : /\ threads[u].op \in {"setup", "request_commit"}
                     /\ threads[u].pc \in {"enter", "body"}}

RECURSIVE Sum(_, _)
Sum(f, S) ==
    IF S = {} THEN 0
    ELSE LET x == CHOOSE y \in S : TRUE IN f[x] + Sum(f, S \ {x})

\* the calls made so far, by all threads
CallsMade == Sum([t \in Threads |-> threads[t].calls], Threads)

\* thread t calls a method: it arrives at the method's `with self.mutex`
Invoke(t, op, args) ==
    /\ threads[t].pc = "idle"
    /\ CallsMade < MaxCalls
    /\ op \in {"setup", "request_commit"}
           => entropy + Cardinality(Drawing) < MaxEntropy
    /\ threads' = [threads EXCEPT ![t] =
           [threads[t] EXCEPT !.pc = "enter", !.op = op, !.args = args,
                              !.calls = @ + 1]]
    /\ UNCHANGED <<self, entropy, lastOp, disclosed, mutex>>

\* the first statement inside the method's `with` block
FirstStatement(op) ==
    CASE op = "set_commit" -> "search"
      [] op = "revoke_until" -> "order"
      [] op = "update" -> "update"
      [] OTHER -> "body"

\* a plausible slip: the method body is not put under the mutex
Acquire_unlocked(t) ==
    /\ threads[t].pc = "enter"
    /\ mutex' = acquire(mutex, t)
    /\ threads' = [threads EXCEPT ![t] =
           [threads[t] EXCEPT !.pc = FirstStatement(threads[t].op),
                              !.seen = self]]
    /\ UNCHANGED <<self, entropy, lastOp, disclosed>>

\* `with self.mutex:` entered
Acquire(t) ==
    /\ threads[t].pc = "enter"
    /\ CanAcquire(mutex, t)
    /\ mutex' = acquire(mutex, t)
    /\ threads' = [threads EXCEPT ![t] =
           [threads[t] EXCEPT !.pc = FirstStatement(threads[t].op),
                              !.seen = self]]
    /\ UNCHANGED <<self, entropy, lastOp, disclosed>>

\* what a method returned, kept under the method's name
Returned(op, val) == [name \in {op} |-> val]

\* the body of t's call ends with outcome r: returned or raised
Ends(t, r) ==
    /\ self' = r.self
    /\ threads' = [threads EXCEPT ![t] =
           [threads[t] EXCEPT !.pc = "exit", !.status = r.status,
                              !.val = Returned(threads[t].op, r.val)]]
    /\ UNCHANGED <<lastOp, disclosed, mutex>>

\* t's call moves on to statement pc with its local variable set
Goes(t, pc, local) ==
    threads' = [threads EXCEPT ![t] =
        [threads[t] EXCEPT !.pc = pc, !.local = local]]

SetupBody(t) ==
    /\ threads[t].pc = "body" /\ threads[t].op = "setup"
    /\ Ends(t, setup(self, threads[t].args.payee_wif, os_urandom(entropy)))
    /\ entropy' = entropy + 1

SetDepositBody(t) ==
    /\ threads[t].pc = "body" /\ threads[t].op = "set_deposit"
    /\ Ends(t, set_deposit(self, threads[t].args.rawtx,
                           threads[t].args.script_hex))
    /\ entropy' = entropy

RequestCommitBody(t) ==
    /\ threads[t].pc = "body" /\ threads[t].op = "request_commit"
    /\ \E r \in {request_commit(self, threads[t].args.quantity,
                                 os_urandom(entropy))} :
           /\ Ends(t, r)
           /\ entropy' = IF r.status = "ok" THEN entropy + 1 ELSE entropy

\* set_commit up to the match: the validations and the search
SetCommitSearch(t) ==
    /\ threads[t].pc = "search"
    /\ LET rawtx == threads[t].args.rawtx
           script_hex == threads[t].args.script_hex
           script == h2b(script_hex)
           hits == Matching(self, get_commit_revoke_secret_hash(script))
       IN IF ~validate_payer_commit(rawtx, script_hex)
          THEN Ends(t, Result(self, "AssertionError", <<>>, {}))
          ELSE IF self.spend_secret = None
          THEN Ends(t, Result(self, "TypeError", <<>>, {}))
          ELSE IF ~validate_commit_secret_hash(self, script)
          THEN Ends(t, Result(self, "ValueError", <<>>, {}))
          ELSE IF ~validate_commit_payee_pubkey(self, script)
          THEN Ends(t, Result(self, "ValueError", <<>>, {}))
          ELSE IF hits = {}
          THEN Ends(t, Result(self, "None", <<>>, {}))
          ELSE /\ Goes(t, "remove", <<self.commits_requested[
                       CHOOSE j \in hits : \A k \in hits : j <= k]>>)
               /\ UNCHANGED <<self, lastOp, disclosed, mutex>>
    /\ entropy' = entropy

\* self.commits_requested.remove(revoke_secret)
SetCommitRemove(t) ==
    /\ threads[t].pc = "remove"
    /\ LET revoke_secret == threads[t].local[1]
           at == {i \in 1..Len(self.commits_requested) :
                     self.commits_requested[i] = revoke_secret}
       IN IF at = {}
          THEN \* list.remove raises when the value is not in the list
               Ends(t, Result(self, "ValueError", <<>>, {}))
          ELSE /\ self' = [self EXCEPT !.commits_requested =
                      RemoveAt(@, CHOOSE j \in at : \A k \in at : j <= k)]
               /\ Goes(t, "append", threads[t].local)
               /\ UNCHANGED <<lastOp, disclosed, mutex>>
    /\ entropy' = entropy

\* self._order_active(), the append, and the returned transferred amount
SetCommitAppend(t) ==
    /\ threads[t].pc = "append"
    /\ LET ordered == order_active(self)
           added == [ordered EXCEPT !.commits_active = Append(@,
                        [rawtx |-> threads[t].args.rawtx,
                         script |-> threads[t].args.script_hex,
                         revoke_secret |-> threads[t].local[1]])]
       IN Ends(t, Result(added, "ok", <<get_transferred_amount(added)>>, {}))
    /\ entropy' = entropy

\* revoke_until: self._order_active()
RevokeOrder(t) ==
    /\ threads[t].pc = "order"
    /\ self' = order_active(self)
    /\ Goes(t, "scan", <<>>)
    /\ UNCHANGED <<entropy, lastOp, disclosed, mutex>>

\* revoke_until: the reversed scan collecting the secrets
RevokeScan(t) ==
    /\ threads[t].pc = "scan"
    /\ Goes(t, "revoke",
            revoke_scan(self.commits_active, threads[t].args.quantity))
    /\ UNCHANGED <<self, entropy, lastOp, disclosed, mutex>>

\* revoke_until: self.revoke_all(secrets) and the return
RevokeAll(t) ==
    /\ threads[t].pc = "revoke"
    /\ Ends(t, Result(revoke_all(self, threads[t].local), "ok",
                      threads[t].local, {}))
    /\ entropy' = entropy

CloseChannelBody(t) ==
    /\ threads[t].pc = "body" /\ threads[t].op = "close_channel"
    /\ Ends(t, close_channel(self))
    /\ entropy' = entropy

GetPayoutRecoverableBody(t) ==
    /\ threads[t].pc = "body" /\ threads[t].op = "get_payout_recoverable"
    /\ \E chain \in Chains(self) : Ends(t, get_payout_recoverable(self, chain))
    /\ entropy' = entropy

PayoutRecoverBody(t) ==
    /\ threads[t].pc = "body" /\ threads[t].op = "payout_recover"
    /\ Ends(t, payout_recover(self, threads[t].args.scripts))
    /\ entropy' = entropy

\* update calls self.get_payout_recoverable(): its `with self.mutex`
UpdateCallRecoverable(t) ==
    /\ threads[t].pc = "update"
    /\ CanAcquire(mutex, t)
    /\ mutex' = acquire(mutex, t)
    /\ Goes(t, "recoverable", <<>>)
    /\ UNCHANGED <<self, entropy, lastOp, disclosed>>

\* the loops of get_payout_recoverable, called from update
UpdateRecoverableScan(t) ==
    /\ threads[t].pc = "recoverable"
    /\ \E chain \in Chains(self) :
           Goes(t, "recoverable_exit", get_payout_recoverable(self, chain).val)
    /\ UNCHANGED <<self, entropy, lastOp, disclosed, mutex>>

\* get_payout_recoverable returns to update, which tests len(scripts) > 0
UpdateRecoverableReturn(t) ==
    /\ threads[t].pc = "recoverable_exit"
    /\ mutex' = release(mutex, t)
    /\ threads' = [threads EXCEPT ![t] =
           IF Len(threads[t].local) > 0
           THEN [threads[t] EXCEPT !.pc = "update_recover"]
           ELSE [threads[t] EXCEPT !.pc = "exit", !.status = "ok",
                                   !.val = Returned("update", <<>>)]]
    /\ UNCHANGED <<self, entropy, lastOp, disclosed>>

\* update calls self.payout_recover(scripts): its `with self.mutex`
UpdateCallRecover(t) ==
    /\ threads[t].pc = "update_recover"
    /\ CanAcquire(mutex, t)
    /\ mutex' = acquire(mutex, t)
    /\ Goes(t, "recover", threads[t].local)
    /\ UNCHANGED <<self, entropy, lastOp, disclosed>>

\* the loop of payout_recover, called from update
UpdateRecoverLoop(t) ==
    /\ threads[t].pc = "recover"
    /\ self' = payout_recover(self, threads[t].local).self
    /\ Goes(t, "recover_exit", threads[t].local)
    /\ UNCHANGED <<entropy, lastOp, disclosed, mutex>>

\* payout_recover returns to update, which is at its end
UpdateRecoverReturn(t) ==
    /\ threads[t].pc = "recover_exit"
    /\ mutex' = release(mutex, t)
    /\ threads' = [threads EXCEPT ![t] =
           [threads[t] EXCEPT !.pc = "exit", !.status = "ok",
                              !.val = Returned("update", <<>>)]]
    /\ UNCHANGED <<self, entropy, lastOp, disclosed>>

\* a plausible slip: the mutex is released on the normal path only
Return_leak(t) ==
    /\ threads[t].pc = "exit"
    /\ mutex' = IF threads[t].status \in {"ok", "None"}
                THEN release(mutex, t) ELSE mutex
    /\ threads' = [threads EXCEPT ![t] =
           [threads[t] EXCEPT !.pc = "idle", !.args = None, !.seen = None,
                              !.local = <<>>]]
    /\ UNCHANGED <<self, entropy, lastOp, disclosed>>

\* the `with` block is left, by return or by exception: the mutex is released
Return(t) ==
    /\ threads[t].pc = "exit"
    /\ mutex' = release(mutex, t)
    /\ threads' = [threads EXCEPT ![t] =
           [threads[t] EXCEPT !.pc = "idle", !.args = None, !.seen = None,
                              !.local = <<>>]]
    /\ UNCHANGED <<self, entropy, lastOp, disclosed>>

\* the steps thread t takes once it has called a method
Step(t) ==
    \/ Acquire(t)
    \/ SetupBody(t) \/ SetDepositBody(t) \/ RequestCommitBody(t)
    \/ SetCommitSearch(t) \/ SetCommitRemove(t) \/ SetCommitAppend(t)
    \/ RevokeOrder(t) \/ RevokeScan(t) \/ RevokeAll(t)
    \/ CloseChannelBody(t) \/ GetPayoutRecoverableBody(t)
    \/ PayoutRecoverBody(t)
    \/ UpdateCallRecoverable(t) \/ UpdateRecoverableScan(t)
    \/ UpdateRecoverableReturn(t) \/ UpdateCallRecover(t)
    \/ UpdateRecoverLoop(t) \/ UpdateRecoverReturn(t)
    \/ Return(t)

\* the calls thread t may make
Calls(t) ==
    \/ Invoke(t, "setup", [payee_wif |-> ThreadWif])
    \/ \E rawtx \in DepositTxs, script_hex \in ThreadDepositScripts :
           Invoke(t, "set_deposit", [rawtx |-> rawtx, script_hex |-> script_hex])
    \/ \E quantity \in ThreadQuantities :
           Invoke(t, "request_commit", [quantity |-> quantity])
    \/ \E rawtx \in RawTxs, script_hex \in ThreadCommitScripts :
           Invoke(t, "set_commit", [rawtx |-> rawtx, script_hex |-> script_hex])
    \/ \E quantity \in ThreadQuantities :
           Invoke(t, "revoke_until", [quantity |-> quantity])
    \/ Invoke(t, "close_channel", None)
    \/ Invoke(t, "get_payout_recoverable", None)
    \/ \E scripts \in ScriptInputs :
           Invoke(t, "payout_recover", [scripts |-> scripts])
    \/ Invoke(t, "update", None)

NextThreads == \E t \in Threads : Calls(t) \/ Step(t)

SpecThreads == Init /\ [][NextThreads]_vars

\* a thread that has called a method is scheduled until the call ends
FairThreads == SpecThreads /\ \A t \in Threads : WF_vars(Step(t))

(***************************************************************************)
(* Properties of the channel.                                              *)
(***************************************************************************)
Quantity(commit) == get_quantity(commit["rawtx"])

Ordered(commits) ==
    \A i, j \in 1..Len(commits) :
        i < j => Quantity(commits[i]) <= Quantity(commits[j])

SecretsOf(commits) == {c["revoke_secret"] : c \in Range(commits)}

\* the secrets os.urandom has returned so far
Drawn == {b2h(os_urandom(k)) : k \in 0..(entropy - 1)}

\* the checks set_commit makes before it searches commits_requested
PassesCommitValidation(s, rawtx, script_hex) ==
    /\ validate_payer_commit(rawtx, script_hex)
    /\ s.spend_secret # None
    /\ validate_commit_secret_hash(s, h2b(script_hex))
    /\ validate_commit_payee_pubkey(s, h2b(script_hex))

ConsumesOneRequest ==
    (lastOp'.op = "set_commit" /\ lastOp'.status = "ok") =>
        LET new == self'.commits_active[Len(self'.commits_active)]
            secret == new["revoke_secret"]
        IN /\ secret \in Range(self.commits_requested)
           /\ get_commit_revoke_secret_hash(h2b(new["script"]))
                  = hash160hex(secret)
           /\ secret \notin Range(self'.commits_requested)
           /\ Len(self'.commits_requested) = Len(self.commits_requested) - 1
           /\ Len(self'.commits_active) = Len(self.commits_active) + 1
           /\ secret \notin SecretsOf(self.commits_active)
           /\ Cardinality({i \in 1..Len(self'.commits_active) :
                  self'.commits_active[i]["revoke_secret"] = secret}) = 1

\* a secret that was drawn and is not pending never becomes pending
NeverPendingAgain ==
    \A secret \in Drawn :
        secret \notin Range(self.commits_requested)
            => secret \notin Range(self'.commits_requested)

\* a set_commit whose script embeds the hash of a secret some commit already
\* carries finds no match and adds nothing
UsedSecretFindsNoMatch ==
    \A rawtx \in RawTxs, script_hex \in CommitInputs :
        (\E secret \in SecretsOf(self.commits_active \o self.commits_revoked) :
            get_commit_revoke_secret_hash(h2b(script_hex)) = hash160hex(secret))
        => LET r == set_commit(self, rawtx, script_hex)
           IN r.status # "ok" /\ r.self = self

\* C2: a revoke secret produced by request_commit is consumed exactly once:
\* the set_commit that matches it removes it from commits_requested and
\* appends exactly one commit carrying it, and afterwards it is never pending
\* again, so a later set_commit embedding its hash finds no match.
C2_SecretConsumedOnce ==
    /\ []UsedSecretFindsNoMatch
    /\ [][ConsumesOneRequest /\ NeverPendingAgain]_vars

\* a commit was accepted while another request stays pending
C2_Witness ==
    /\ lastOp.op = "set_commit"
    /\ lastOp.status = "ok"
    /\ Len(self.commits_requested) > 0
    /\ Len(self.commits_active) > 0

\* C3: in every reachable state commits_active is ordered ascending by
\* quantity and its last element is the highest-quantity active commit.
C3_ActiveAlwaysOrdered ==
    /\ Ordered(self.commits_active)
    /\ \A c \in Range(self.commits_active) :
           Quantity(c) <= Quantity(self.commits_active[Len(self.commits_active)])

\* C4: a matching set_commit whose quantity is strictly above every active
\* commit's, on ordered active commits (as every one of a run of strictly
\* increasing set_commit calls is), leaves commits_active ordered, returns the
\* quantity it accepted, and makes that the transferred amount.
C4_IncreasingCommits ==
    \A rawtx \in RawTxs, script_hex \in CommitInputs :
        LET r == set_commit(self, rawtx, script_hex) IN
        ( /\ r.status = "ok"
          /\ Ordered(self.commits_active)
          /\ \A c \in Range(self.commits_active) :
                 Quantity(c) < get_quantity(rawtx) )
        => /\ Ordered(r.self.commits_active)
           /\ r.val = <<get_quantity(rawtx)>>
           /\ get_transferred_amount(r.self) = get_quantity(rawtx)
           /\ Quantity(r.self.commits_active[Len(r.self.commits_active)])
                  = get_quantity(rawtx)

\* two commits of strictly increasing quantity were accepted in turn
C4_Witness ==
    /\ lastOp.op = "set_commit"
    /\ lastOp.status = "ok"
    /\ Len(self.commits_active) = 2
    /\ Quantity(self.commits_active[1]) < Quantity(self.commits_active[2])
    /\ lastOp.val = <<Quantity(self.commits_active[2])>>
    /\ self.commits_requested = <<>>

\* C5: revoke_until(q) returns and revokes exactly the active commits above q
\* and keeps the others; below the lowest quantity it empties commits_active,
\* at or above the highest it discloses nothing and changes nothing.
C5_RevokeUntilExact ==
    \A quantity \in QuantityInputs :
        LET r == revoke_until(self, quantity)
            active == Range(self.commits_active)
            above == {c \in active : quantity < Quantity(c)}
        IN /\ Range(r.val) = {c["revoke_secret"] : c \in above}
           /\ Len(r.val) = Cardinality(above)
           /\ Range(r.self.commits_active) = active \ above
           /\ Len(r.self.commits_active)
                  = Len(self.commits_active) - Cardinality(above)
           /\ Range(r.self.commits_revoked)
                  = Range(self.commits_revoked) \cup above
           /\ (\A c \in active : quantity < Quantity(c))
                  => r.self.commits_active = <<>>
           /\ (\A c \in active : ~(quantity < Quantity(c)))
                  => r.val = <<>> /\ r.self = self

\* C6: a commit whose revoke secret revoke_until returned is in
\* commits_revoked right after that call, and no commit carrying a secret
\* revoke_until ever returned is in commits_active, whatever calls follow.
C6_RevokedNeverActive ==
    /\ \A d \in disclosed :
           d.by = "revoke_until" => d.secret \notin SecretsOf(self.commits_active)
    /\ lastOp.op = "revoke_until" =>
           \A secret \in Range(lastOp.val) :
               /\ secret \in SecretsOf(self.commits_revoked)
               /\ [by |-> "revoke_until", secret |-> secret] \in disclosed

\* after a revocation a further commit was accepted
C6_Witness ==
    /\ lastOp.op = "set_commit"
    /\ lastOp.status = "ok"
    /\ \E d \in disclosed :
           d.by = "revoke_until" /\ d.secret \in SecretsOf(self.commits_revoked)
    /\ Len(self.commits_active) > 0

\* C7: close_channel with no active commit fails its assertion and changes
\* nothing; otherwise the one commit it finalizes is an active commit of the
\* highest active quantity, never one of commits_revoked, and no other commit
\* is touched.
C7_ClosesHighestActive ==
    LET r == close_channel(self)
        n == Len(self.commits_active)
    IN /\ n = 0 => r.status = "AssertionError" /\ r.self = self
       /\ r.self.commits_revoked = self.commits_revoked
       /\ r.status = "ok" =>
              LET closed == r.self.commits_active[n] IN
              /\ Len(r.self.commits_active) = n
              /\ bad_signature_count(closed["rawtx"]) = 0
              /\ r.val = <<gettxid(closed["rawtx"])>>
              /\ \E c \in Range(self.commits_active) :
                     /\ c["revoke_secret"] = closed["revoke_secret"]
                     /\ c["script"] = closed["script"]
                     /\ closed["rawtx"] = finalize_commit(self.payee_wif,
                            c["rawtx"], h2b(self.deposit_script_hex))
                     /\ \A other \in Range(self.commits_active) :
                            Quantity(other) <= Quantity(c)
              /\ closed["revoke_secret"] \notin SecretsOf(self.commits_revoked)
              /\ \A d \in disclosed : d.by = "revoke_until"
                     => d.secret # closed["revoke_secret"]
              /\ \A i \in 1..(n - 1) :
                     r.self.commits_active[i] \in Range(self.commits_active)

\* the channel was closed on its active commit while it holds a revoked one
C7_Witness ==
    /\ lastOp.op = "close_channel"
    /\ lastOp.status = "ok"
    /\ Len(self.commits_revoked) > 0
    /\ Len(self.commits_active) > 0
    /\ bad_signature_count(
           self.commits_active[Len(self.commits_active)]["rawtx"]) = 0

\* C8: the spend secret itself leaves the channel only through closing or
\* payout recovery, never through setup, set_deposit, request_commit,
\* set_commit or revoke_until; what revoke_until returns are revoke secrets of
\* commits, never the spend secret.
C8_SpendSecretKept ==
    /\ \A d \in disclosed :
           d.secret = self.spend_secret
               => d.by \in {"close_channel", "payout_recover"}
    /\ lastOp.op = "revoke_until" =>
           \A secret \in Range(lastOp.val) :
               /\ secret # self.spend_secret
               /\ secret \in SecretsOf(self.commits_revoked)

\* payout recovery has handed out the spend secret, revoke_until a revoke secret
C8_Witness ==
    /\ [by |-> "payout_recover", secret |-> self.spend_secret] \in disclosed
    /\ \E d \in disclosed : d.by = "revoke_until"
    /\ Len(self.payout_rawtxs) > 0

\* C9: set_deposit in the unopened state with a script whose spend-secret-hash
\* or payee pubkey differs from the channel's own fails with a validation
\* error (ValueError when the transaction is well formed) and leaves
\* deposit_rawtx and deposit_script_hex unset.
C9_BadDepositRejected ==
    \A rawtx \in DepositTxs, script_hex \in DepositInputs :
        LET r == set_deposit(self, rawtx, script_hex)
            script == h2b(script_hex)
        IN ( /\ assert_unopen_state(self)
             /\ \/ get_deposit_spend_secret_hash(script)
                       # hash160hex(self.spend_secret)
                \/ get_deposit_payee_pubkey(script) # wif2pubkey(self.payee_wif) )
           => /\ r.status \in {"ValueError", "AssertionError"}
              /\ bad_signature_count(rawtx) = 1 => r.status = "ValueError"
              /\ r.self.deposit_rawtx = None
              /\ r.self.deposit_script_hex = None
              /\ r.self = self

\* a deposit was refused with a validation error and the channel is unopened
C9_Witness ==
    /\ lastOp.op = "set_deposit"
    /\ lastOp.status = "ValueError"
    /\ assert_unopen_state(self)

\* C10: once set_deposit has succeeded, no later call changes or clears the
\* stored deposit transaction and script.
C10_DepositImmutable ==
    [][self.deposit_rawtx # None =>
          /\ self'.deposit_rawtx = self.deposit_rawtx
          /\ self'.deposit_script_hex = self.deposit_script_hex]_vars

\* C11: no commit processing happens before a deposit is set: in every
\* reachable state where the deposit is unset, commits_requested,
\* commits_active and commits_revoked are empty.
C11_NoCommitsBeforeDeposit ==
    self.deposit_rawtx = None =>
        /\ self.commits_requested = <<>>
        /\ self.commits_active = <<>>
        /\ self.commits_revoked = <<>>

\* C12: setup on a channel that already has a payer key, a deposit or commits
\* fails a fatal assertion and leaves the channel as it was, rather than
\* resetting it.
C12_SetupOnlyUnopened ==
    \A payee_wif \in Wifs :
        LET r == setup(self, payee_wif, os_urandom(entropy)) IN
        ( \/ self.payer_wif # None
          \/ self.deposit_rawtx # None
          \/ self.deposit_script_hex # None
          \/ Len(self.commits_active) > 0
          \/ Len(self.commits_revoked) > 0 )
        => r.status = "AssertionError" /\ r.self = self

\* C13: a set_commit call that raises a validation error (wrong
\* spend-secret-hash, wrong payee pubkey, or malformed signature shape) leaves
\* the channel unchanged even when the script's revoke-secret-hash matches an
\* outstanding request, and that request is still matched by a later valid
\* set_commit.
C13_FailedCommitKeepsRequest ==
    \A rawtx \in RawTxs, script_hex \in CommitInputs :
        LET r == set_commit(self, rawtx, script_hex)
            hits == Matching(self, get_commit_revoke_secret_hash(h2b(script_hex)))
        IN r.status \in {"ValueError", "AssertionError"} =>
            /\ r.self.commits_requested = self.commits_requested
            /\ r.self.commits_active = self.commits_active
            /\ r.self.commits_revoked = self.commits_revoked
            /\ r.self = self
            /\ Matching(r.self, get_commit_revoke_secret_hash(h2b(script_hex)))
                   = hits
            /\ \A later \in RawTxs, valid_hex \in CommitInputs :
                   ( /\ hits # {}
                     /\ PassesCommitValidation(r.self, later, valid_hex)
                     /\ get_commit_revoke_secret_hash(h2b(valid_hex))
                            = get_commit_revoke_secret_hash(h2b(script_hex)) )
                   => LET again == set_commit(r.self, later, valid_hex) IN
                      /\ again.status = "ok"
                      /\ again.self.commits_active[
                             Len(again.self.commits_active)]["revoke_secret"]
                             \in {self.commits_requested[i] : i \in hits}

\* a set_commit call raised a validation error while a request is pending
\* whose hash a script with a wrong spend-secret-hash or payee pubkey embeds
C13_Witness ==
    /\ lastOp.op = "set_commit"
    /\ lastOp.status = "ValueError"
    /\ Len(self.commits_requested) > 0
    /\ \E rawtx \in RawTxs, script_hex \in CommitInputs :
           /\ Matching(self, get_commit_revoke_secret_hash(h2b(script_hex))) # {}
           /\ set_commit(self, rawtx, script_hex).status = "ValueError"

\* C14: get_payout_recoverable returns the script of a commit (active or
\* revoked) only if that commit is not reported spent, its address can be
\* spent from, and a UTXO at the address has at least the script's delay in
\* confirmations; a commit reported spent, or whose UTXOs are all younger than
\* the delay, contributes no script.  The call changes nothing.
C14_RecoverableOnlyWhenDue ==
    \A chain \in Chains(self) :
        LET r == get_payout_recoverable(self, chain)
            commits == self.commits_active \o self.commits_revoked
            due(k) == /\ ~chain[k].spent
                      /\ chain[k].can_spend
                      /\ \E i \in 1..Len(chain[k].confirms) :
                             chain[k].confirms[i] >= get_commit_delay_time(
                                 h2b(commits[k]["script"]))
        IN /\ r.self = self
           /\ \A script \in Range(r.val) :
                  \E k \in 1..Len(commits) :
                      h2b(commits[k]["script"]) = script /\ due(k)
           /\ \A k \in 1..Len(commits) :
                  ~due(k) => h2b(commits[k]["script"]) \notin Range(r.val)

\* of an active and a revoked commit, get_payout_recoverable returned the
\* script of one and not of the other
C14_Witness ==
    /\ lastOp.op = "get_payout_recoverable"
    /\ Len(self.commits_active) > 0
    /\ Len(self.commits_revoked) > 0
    /\ lastOp.val # <<>>
    /\ \E c \in Range(self.commits_active \o self.commits_revoked) :
           h2b(c["script"]) \notin Range(lastOp.val)

\* C17: the spend-secret-hash setup returns is the hash deposit validation
\* computes from the stored spend secret, and the pubkey it returns is the one
\* derived from the stored payee key, so set_deposit right after setup, with a
\* well-formed transaction and a script embedding exactly the two returned
\* values, succeeds and stores the deposit.
C17_SetupDepositRoundTrip ==
    lastOp.op = "setup" =>
        LET payee_pubkey == lastOp.val[1]
            spend_secret_hash == lastOp.val[2]
            script_hex == b2h([spend_secret_hash |-> spend_secret_hash,
                               payee_pubkey |-> payee_pubkey])
        IN /\ spend_secret_hash = hash160hex(self.spend_secret)
           /\ payee_pubkey = wif2pubkey(self.payee_wif)
           /\ \A rawtx \in DepositTxs :
                  bad_signature_count(rawtx) = 1 =>
                      LET r == set_deposit(self, rawtx, script_hex) IN
                      /\ r.status = "ok"
                      /\ r.self = [self EXCEPT !.deposit_rawtx = rawtx,
                                               !.deposit_script_hex = script_hex]

\* a deposit whose script embeds the channel's own hash and pubkey was stored
\* by the set_deposit that followed a second setup
C17_Witness ==
    /\ lastOp.op = "set_deposit"
    /\ lastOp.status = "ok"
    /\ entropy = 2
    /\ self.commits_requested = <<>>
    /\ self.deposit_rawtx \in DepositTxs
    /\ self.deposit_script_hex =
           b2h([spend_secret_hash |-> hash160hex(self.spend_secret),
                payee_pubkey |-> wif2pubkey(self.payee_wif)])

\* C18: set_commit never adds to commits_active a commit whose transaction
\* quantity is below that of an existing active commit: every commit it
\* accepts pays at least as much as every commit accepted before it.
C18_NeverBelowActive ==
    \A rawtx \in RawTxs, script_hex \in CommitInputs :
        LET r == set_commit(self, rawtx, script_hex) IN
        r.status = "ok" =>
            \A c \in Range(self.commits_active) :
                Quantity(c) <= get_quantity(rawtx)

\* C20: in every reachable state the revoke secrets held in
\* commits_requested, commits_active and commits_revoked are pairwise distinct,
\* so no commit is both active and revoked and no secret is both pending and
\* attached to a commit; and revoke_until conserves the number of commits.
C20_SecretsPartitioned ==
    LET active == self.commits_active
        revoked == self.commits_revoked
        held == self.commits_requested
                \o [i \in 1..Len(active) |-> active[i]["revoke_secret"]]
                \o [i \in 1..Len(revoked) |-> revoked[i]["revoke_secret"]]
    IN /\ \A i, j \in 1..Len(held) : i # j => held[i] # held[j]
       /\ Range(active) \cap Range(revoked) = {}
       /\ Range(self.commits_requested)
              \cap (SecretsOf(active) \cup SecretsOf(revoked)) = {}
       /\ SecretsOf(active) \cap SecretsOf(revoked) = {}
       /\ \A quantity \in QuantityInputs :
              LET r == revoke_until(self, quantity) IN
              /\ Len(r.self.commits_active) + Len(r.self.commits_revoked)
                     = Len(active) + Len(revoked)
              /\ r.self.commits_requested = self.commits_requested

\* revoke_until revoked one of two commits and kept the other active
C20_Witness ==
    /\ lastOp.op = "revoke_until"
    /\ lastOp.val # <<>>
    /\ Len(self.commits_active) > 0
    /\ Len(self.commits_revoked) > 0

\* thread t is inside a `with self.mutex` block
InCall(t) == threads[t].pc \notin {"idle", "enter"}

\* how many `with self.mutex` blocks a call at statement pc is inside
Depth(pc) ==
    IF pc \in {"idle", "enter"} THEN 0
    ELSE IF pc \in {"recoverable", "recoverable_exit", "recover",
                    "recover_exit"} THEN 2
    ELSE 1

\* a call that has reached its end did to the channel it found on entering,
\* and returned, what the method does when nothing else runs
RanAlone(t) ==
    LET call == threads[t]
        alone == CASE call.op = "set_commit" ->
                          set_commit(call.seen, call.args.rawtx,
                                     call.args.script_hex)
                   [] call.op = "revoke_until" ->
                          revoke_until(call.seen, call.args.quantity)
                   [] call.op = "set_deposit" ->
                          set_deposit(call.seen, call.args.rawtx,
                                      call.args.script_hex)
                   [] call.op = "close_channel" -> close_channel(call.seen)
                   [] call.op = "payout_recover" ->
                          payout_recover(call.seen, call.args.scripts)
                   [] OTHER -> Result(self, call.status, call.val[call.op], {})
    IN /\ self = alone.self
       /\ call.status = alone.status
       /\ call.val = Returned(call.op, alone.val)

\* C15: public operations on one channel exclude each other: at most one
\* thread is inside a method body and it owns the mutex; while a set_commit
\* is between removing the request and appending the commit the channel is
\* exactly what that call made of it; every call ends as if it had run alone;
\* and concurrent set_commit calls for one revoke-secret-hash accept at most
\* one commit.
C15_MutuallyExclusive ==
    /\ \A t, u \in Threads : InCall(t) /\ InCall(u) => t = u
    /\ \A t \in Threads : InCall(t) => mutex.owner = t /\ mutex.count >= 1
    /\ \A t \in Threads :
           /\ threads[t].pc \in {"search", "remove"} => self = threads[t].seen
           /\ threads[t].pc = "append" =>
                  /\ [self EXCEPT !.commits_requested =
                                      threads[t].seen.commits_requested]
                         = threads[t].seen
                  /\ Len(self.commits_requested)
                         = Len(threads[t].seen.commits_requested) - 1
                  /\ threads[t].local[1] \notin Range(self.commits_requested)
           /\ threads[t].pc = "exit" => RanAlone(t)
    /\ LET commits == self.commits_active \o self.commits_revoked IN
       \A i, j \in 1..Len(commits) :
           i # j => commits[i]["revoke_secret"] # commits[j]["revoke_secret"]

\* a set_commit has removed the request and not yet appended the commit while
\* another thread waits with a valid set_commit for the same revoke-secret-hash
C15_Witness ==
    \E t, u \in Threads :
        /\ t # u
        /\ threads[t].op = "set_commit" /\ threads[t].pc = "append"
        /\ threads[u].op = "set_commit" /\ threads[u].pc = "enter"
        /\ get_commit_revoke_secret_hash(h2b(threads[u].args.script_hex))
               = hash160hex(threads[t].local[1])
        /\ PassesCommitValidation(self, threads[u].args.rawtx,
                                  threads[u].args.script_hex)

\* the mutex is held exactly as deep as the running call is nested, and by
\* nobody when no call is running
HeldByRunningCall ==
    /\ (\A t \in Threads : ~InCall(t)) => mutex = Unlocked
    /\ \A t \in Threads :
           InCall(t) => mutex = [owner |-> t, count |-> Depth(threads[t].pc)]

\* C16: every public operation releases the channel mutex on every exit path
\* (return, validation error, failed assertion): whenever no call is running
\* the mutex is free, and a call that waits for the mutex eventually gets it.
C16_LockReleased ==
    /\ []HeldByRunningCall
    /\ \A t \in Threads :
           (threads[t].pc = "enter") ~> (InCall(t) /\ mutex.owner = t)

\* a call failed its assertion, and afterwards a call of the other thread got
\* the mutex
C16_Witness ==
    \E t, u \in Threads :
        /\ t # u
        /\ threads[t].pc = "idle"
        /\ threads[t].status = "AssertionError"
        /\ threads[u].pc = "exit"
        /\ threads[u].calls = 1
        /\ mutex.owner = u

\* what update has done when it reaches its end: nothing when
\* get_payout_recoverable returned no script, else one payout per script
UpdateRecordsPayouts ==
    \A t \in Threads :
        (threads[t].op = "update" /\ threads[t].pc = "exit") =>
            LET scripts == threads[t].local
                seen == threads[t].seen
            IN /\ scripts = <<>> => self = seen
               /\ self = [seen EXCEPT !.payout_rawtxs = @ \o
                            [i \in 1..Len(scripts) |->
                                control_payout_recover(seen.payee_wif,
                                    scripts[i], seen.spend_secret)]]

\* update called on its own: the same, for every blockchain answer
UpdateAloneRecordsPayouts ==
    \A chain \in Chains(self) :
        LET scripts == get_payout_recoverable(self, chain).val
            r == update(self, chain)
        IN /\ scripts = <<>> => r.self = self
           /\ r.self = [self EXCEPT !.payout_rawtxs = @ \o
                          [i \in 1..Len(scripts) |->
                              control_payout_recover(self.payee_wif,
                                  scripts[i], self.spend_secret)]]

\* C19: update always terminates and releases the mutex: its nested
\* acquisitions in get_payout_recoverable and payout_recover never block the
\* thread that already owns the mutex; when get_payout_recoverable returns no
\* script payout_rawtxs is unchanged, otherwise exactly one payout record per
\* returned script is appended.
C19_UpdateTerminates ==
    /\ [](\A t \in Threads :
             threads[t].pc \in {"update", "update_recover"}
                 => CanAcquire(mutex, t) /\ mutex.owner = t)
    /\ [](UpdateRecordsPayouts /\ UpdateAloneRecordsPayouts)
    /\ \A t \in Threads :
           (threads[t].op = "update" /\ threads[t].pc = "enter")
               ~> (threads[t].op = "update" /\ threads[t].pc = "idle"
                   /\ mutex.owner # t)

\* update is inside payout_recover, holding the mutex twice, and has recorded
\* a payout for the script get_payout_recoverable returned
C19_Witness ==
    \E t \in Threads :
        /\ threads[t].op = "update"
        /\ threads[t].pc = "recover_exit"
        /\ mutex = [owner |-> t, count |-> 2]
        /\ threads[t].local # <<>>
        /\ Len(self.payout_rawtxs) = Len(threads[t].local)

====
